---- MODULE Spec2Model ----
(***************************************************************************)
(* Model of two AngleEnergy variants of PapillonNDL:                       *)
(*   - STCoherentElastic (include/PapillonNDL/st_coherent_elastic.hpp)     *)
(*   - GeneralEvaporation (src/general_evaporation.cpp)                    *)
(*                                                                         *)
(* Energies, table values and variates are exact rationals.  An energy is  *)
(* an integer number of energy quanta; a quotient is kept as a record      *)
(* [num, den] with den > 0 and compared by cross multiplication.  A        *)
(* uniform variate is k / XiDen with k in 0 .. XiDen-1, i.e. in [0,1).     *)
(* C++ containers are 0-based: a vector is a TLA+ sequence read through    *)
(* At(v, i), so every index below is the index the code uses.             *)
(***************************************************************************)
EXTENDS Integers, Sequences, FiniteSets

(* ------------------------------ bounds -------------------------------- *)
MaxE == 4          \* Bragg edges lie in 1 .. MaxE, energies in 1 .. MaxE+1
MaxEdges == 3      \* longest Bragg-edge table
MaxSF == 2         \* structure factor sums lie in 1 .. MaxSF
MaxBin == 3        \* bin values of the file lie in 0 .. MaxBin
MaxNX == 3         \* largest bin count NX of the file (at least 2)
MaxT == 2          \* tabulated temperatures lie in 1 .. MaxT
XiDen == 4         \* variates are k / XiDen, k in 0 .. XiDen-1
MaxOff == 1        \* record offsets i lie in 0 .. MaxOff

(* ------------------------------ helpers ------------------------------- *)
At(v, i) == v[i + 1]

Size(v) == Len(v)

Front(v) == v[1]

Back(v) == v[Len(v)]

Rat(n, d) == [num |-> n, den |-> d]

RatLess(a, b) == a.num * b.den < b.num * a.den

RatEq(a, b) == a.num * b.den = b.num * a.den

StrictlyIncreasing(v) == \A j \in 1 .. Len(v) - 1 : v[j] < v[j + 1]

SeqsUpTo(S, n) == UNION { [1 .. k -> S] : k \in 0 .. n }

\* std::lower_bound(begin, end, x) - begin: offset of the first element
\* that is not less than x, or size() when there is none.
LowerBound(v, x) ==
  IF \E j \in 0 .. Size(v) - 1 : ~(At(v, j) < x)
  THEN CHOOSE j \in 0 .. Size(v) - 1 :
         /\ ~(At(v, j) < x)
         /\ \A k \in 0 .. j - 1 : At(v, k) < x
  ELSE Size(v)

\* std::upper_bound offset: first element strictly greater than x.
UpperBound(v, x) ==
  IF \E j \in 0 .. Size(v) - 1 : At(v, j) > x
  THEN CHOOSE j \in 0 .. Size(v) - 1 :
         /\ At(v, j) > x
         /\ \A k \in 0 .. j - 1 : ~(At(v, k) > x)
  ELSE Size(v)

(* --------------------------- state ------------------------------------ *)
VARIABLES
  variant,                \* which AngleEnergy variant the handle refers to
  bragg_edges_,           \* STCoherentElastic::bragg_edges_
  structure_factor_sum_,  \* STCoherentElastic::structure_factor_sum_
  calls,                  \* the last two calls on the STCoherentElastic
  ace,                    \* the flat array handed to GeneralEvaporation
  rec,                    \* the record laid out in ace at offset rec.i
  pc,                     \* GeneralEvaporation: "raw", "ready" or "fault"
  NBT,                    \* constructor local NBT
  INT,                    \* constructor local INT
  energy,                 \* constructor local energy
  temperature,            \* constructor local temperature
  region_kind,            \* which Function1D temperature_ points to
  bin_bounds_,            \* GeneralEvaporation::bin_bounds_
  se_last                 \* the last sample_energy call

vars == << variant, bragg_edges_, structure_factor_sum_, calls, ace, rec, pc, NBT, INT, energy, temperature,
           region_kind, bin_bounds_, se_last >>

ceVars == << bragg_edges_, structure_factor_sum_, calls >>

geVars == << ace, rec, pc, NBT, INT, energy, temperature, region_kind,
             bin_bounds_, se_last >>

(* ----------------------- STCoherentElastic ---------------------------- *)
Energies == 1 .. MaxE + 1

EdgeTables == { v \in SeqsUpTo(1 .. MaxE, MaxEdges) : StrictlyIncreasing(v) }

\* xs with std::upper_bound in place of std::lower_bound.
xs_upper(edges, sf, E) ==
  IF Size(edges) = 0 THEN [l |-> -1, ret |-> Rat(0, 1)]
  ELSE IF E > Front(edges) /\ E < Back(edges)
       THEN LET l == UpperBound(edges, E) - 1
            IN  [l |-> l, ret |-> Rat(At(sf, l), E)]
       ELSE IF E < Front(edges)
            THEN [l |-> -1, ret |-> Rat(0, 1)]
            ELSE [l |-> Size(sf) - 1, ret |-> Rat(Back(sf), E)]

\* STCoherentElastic::xs.  l is the index of structure_factor_sum_ whose
\* entry is the numerator (-1 when the result is the constant 0).
xs(edges, sf, E) ==
  IF Size(edges) = 0 THEN [l |-> -1, ret |-> Rat(0, 1)]
  ELSE IF E > Front(edges) /\ E < Back(edges)
       THEN LET Eit == LowerBound(edges, E)
                l == Eit - 1
            IN  [l |-> l, ret |-> Rat(At(sf, l), E)]
       ELSE IF E < Front(edges)
            THEN [l |-> -1, ret |-> Rat(0, 1)]
            ELSE [l |-> Size(sf) - 1, ret |-> Rat(Back(sf), E)]

\* sample_angle_energy returning the selected edge as the outgoing energy.
sample_angle_energy_Ei(edges, E_in) ==
  IF Size(edges) = 0 THEN [Ei |-> 0, mu |-> Rat(1, 1), E_out |-> 0]
  ELSE LET Ei == IF E_in > Front(edges) /\ E_in < Back(edges)
                 THEN At(edges, LowerBound(edges, E_in) - 1)
                 ELSE IF E_in < Front(edges) THEN 0 ELSE Back(edges)
       IN  [Ei |-> Ei, mu |-> Rat(E_in - 2 * Ei, E_in), E_out |-> Ei]

\* STCoherentElastic::sample_angle_energy (rng is unused).
\* mu = 1. - (2. * Ei / E_in) is the rational (E_in - 2 Ei) / E_in.
sample_angle_energy(edges, E_in) ==
  IF Size(edges) = 0 THEN [Ei |-> 0, mu |-> Rat(1, 1), E_out |-> 0]
  ELSE LET Ei == IF E_in > Front(edges) /\ E_in < Back(edges)
                 THEN LET Eit == LowerBound(edges, E_in)
                      IN  At(edges, Eit - 1)
                 ELSE IF E_in < Front(edges) THEN 0 ELSE Back(edges)
       IN  [Ei |-> Ei, mu |-> Rat(E_in - 2 * Ei, E_in), E_out |-> E_in]

\* The record of a call: the operation, its argument and what it returned
\* (l and ret for xs; Ei, mu and E_out for sample_angle_energy).
XsCall(E, r) ==
  [op |-> "xs", E |-> E, l |-> r.l, ret |-> r.ret,
   Ei |-> 0, mu |-> Rat(0, 1), E_out |-> 0]

SaeCall(E_in, r) ==
  [op |-> "sample_angle_energy", E |-> E_in, l |-> -1, ret |-> Rat(0, 1),
   Ei |-> r.Ei, mu |-> r.mu, E_out |-> r.E_out]

\* The call log keeps the last two calls.
Logged(log, c) == IF Len(log) < 2 THEN Append(log, c) ELSE << log[2], c >>

\* A caller evaluates xs(E).
Call_xs ==
  /\ variant = "STCoherentElastic"
  /\ \E E \in Energies :
       calls' = Logged(calls, XsCall(E, xs(bragg_edges_, structure_factor_sum_, E)))
  /\ UNCHANGED << variant, bragg_edges_, structure_factor_sum_ >>
  /\ UNCHANGED geVars

\* A caller evaluates sample_angle_energy(E_in, rng).
Call_sample_angle_energy ==
  /\ variant = "STCoherentElastic"
  /\ \E E_in \in Energies :
       calls' = Logged(calls, SaeCall(E_in, sample_angle_energy(bragg_edges_, E_in)))
  /\ UNCHANGED << variant, bragg_edges_, structure_factor_sum_ >>
  /\ UNCHANGED geVars

(* ----------------------- GeneralEvaporation --------------------------- *)
GridNE == 2        \* grid size NE of the records; NR lies in 0 .. GridNE

Histogram == 1     \* Interpolation::Histogram

LinLin == 2        \* Interpolation::LinLin

PadValue == 7      \* content of the array in front of the record

\* ACE::xss<T>(i): typed scalar read at offset i of the flat array.
xss(a, i) == At(a, i)

\* ACE::xss(i, n): the n consecutive values that start at offset i.
xss_range(a, i, n) == [j \in 1 .. n |-> At(a, i + j - 1)]

\* The record layout of the format reader:
\* NR, NR NBT, NR INT, NE, NE energies, NE temperatures, NX, NX bin values.
Layout(r) ==
  << r.NR >> \o r.NBT \o r.INT \o << r.NE >> \o r.energy \o r.temperature
    \o << r.NX >> \o r.bins

Records ==
  { [i |-> i, NR |-> nr, NBT |-> nbt, INT |-> int, NE |-> GridNE,
     energy |-> e, temperature |-> t, NX |-> Len(b), bins |-> b] :
      i \in 0 .. MaxOff,
      nr \in 0 .. GridNE,
      nbt \in { [j \in 1 .. n |-> GridNE - n + j] : n \in 0 .. GridNE },
      int \in { [j \in 1 .. n |-> c] : n \in 0 .. GridNE, c \in {Histogram, LinLin} },
      e \in { [j \in 1 .. GridNE |-> j] },
      t \in [1 .. GridNE -> 1 .. MaxT],
      b \in { v \in SeqsUpTo(0 .. MaxBin, MaxNX) :
                Len(v) >= 2 /\ StrictlyIncreasing(v) } }

\* A record is well formed when it has NR breakpoints, the last of which
\* is NE, and NR interpolation codes.
WellFormed(r) ==
  /\ Len(r.INT) = r.NR
  /\ Len(r.NBT) = r.NR

\* GeneralEvaporation::GeneralEvaporation(const ACE& ace, size_t i)
GeneralEvaporation(a, i) ==
  LET NR_ == xss(a, i)
      NE_ == xss(a, i + 1 + 2 * NR_)
      NBT_ == IF NR_ = 0 THEN << NE_ >> ELSE xss_range(a, i + 1, NR_)
      INT_ == IF NR_ = 0 THEN << LinLin >> ELSE xss_range(a, i + 1 + NR_, NR_)
      energy_ == xss_range(a, i + 2 + 2 * NR_, NE_)
      temperature_ == xss_range(a, i + 2 + 2 * NR_ + NE_, NE_)
      NX_ == xss(a, i + 2 + 2 * NR_ + 2 * NE_)
  IN  [NBT |-> NBT_, INT |-> INT_, energy |-> energy_,
       temperature |-> temperature_,
       bin_bounds |-> xss_range(a, i + 2 + 2 * NR_ + 2 * NE_, NX_),
       region_kind |-> IF Size(NBT_) = 1 THEN "Region1D" ELSE "MultiRegion1D"]

\* (*temperature_)(E_in) at a point of the energy grid: the tabulated value.
temperature_eval(e, t, E_in) ==
  t[CHOOSE j \in 1 .. Len(e) : e[j] = E_in]

\* What reading v[i] can produce: the element, or for an index outside the
\* vector (undefined behaviour) any value or a fault.
Reads(v, i) ==
  IF i >= 0 /\ i < Size(v)
  THEN { [fault |-> FALSE, val |-> At(v, i)] }
  ELSE { [fault |-> FALSE, val |-> x] : x \in 0 .. MaxBin }
         \cup { [fault |-> TRUE, val |-> 0] }

NoSe == [called |-> FALSE, E_in |-> 0, T |-> 0, draws |-> << >>, bin |-> 0,
         lo |-> 0, hi |-> 0, ret |-> Rat(0, 1)]

\* The constructor runs on the flat array.
Construct ==
  /\ variant = "GeneralEvaporation"
  /\ pc = "raw"
  /\ LET g == GeneralEvaporation(ace, rec.i)
     IN  /\ NBT' = g.NBT
         /\ INT' = g.INT
         /\ energy' = g.energy
         /\ temperature' = g.temperature
         /\ bin_bounds_' = g.bin_bounds
         /\ region_kind' = g.region_kind
  /\ pc' = "ready"
  /\ UNCHANGED << variant, ace, rec, se_last >>
  /\ UNCHANGED ceVars

\* GeneralEvaporation::sample_energy(E_in, rng).  draws lists the variates
\* in the order rng() returned them; a variate k stands for k / XiDen.
\* Chi * T = ((hi - lo) * xi2 + lo) * T
\*         = ((hi - lo) * k2 + lo * XiDen) * T / XiDen.
sample_energy ==
  /\ variant = "GeneralEvaporation"
  /\ pc = "ready"
  /\ \E E_in \in { energy[j] : j \in 1 .. Len(energy) },
        k1 \in 0 .. XiDen - 1, k2 \in 0 .. XiDen - 1 :
       LET T == temperature_eval(energy, temperature, E_in)
           xi1 == k1
           bin == (Size(bin_bounds_) * xi1) \div XiDen
           xi2 == k2
       IN  \E rhi \in Reads(bin_bounds_, bin + 1), rlo \in Reads(bin_bounds_, bin) :
             IF rhi.fault \/ rlo.fault
             THEN /\ pc' = "fault"
                  /\ se_last' = [called |-> FALSE, E_in |-> E_in, T |-> T,
                                 draws |-> << xi1, xi2 >>, bin |-> bin,
                                 lo |-> 0, hi |-> 0, ret |-> Rat(0, 1)]
             ELSE /\ pc' = "ready"
                  /\ se_last' = [called |-> TRUE, E_in |-> E_in, T |-> T,
                                 draws |-> << xi1, xi2 >>, bin |-> bin,
                                 lo |-> rlo.val, hi |-> rhi.val,
                                 ret |-> Rat(((rhi.val - rlo.val) * xi2
                                                + rlo.val * XiDen) * T, XiDen)]
  /\ UNCHANGED << variant, ace, rec, NBT, INT, energy, temperature,
                  region_kind, bin_bounds_ >>
  /\ UNCHANGED ceVars

(* --------------------------- specification ---------------------------- *)
InitCE ==
  /\ variant = "STCoherentElastic"
  /\ bragg_edges_ \in EdgeTables
  /\ structure_factor_sum_ \in [1 .. Len(bragg_edges_) -> 1 .. MaxSF]
  /\ calls = << >>
  /\ ace = << >>
  /\ rec = [i |-> 0]
  /\ pc = "none"
  /\ NBT = << >>
  /\ INT = << >>
  /\ energy = << >>
  /\ temperature = << >>
  /\ region_kind = "none"
  /\ bin_bounds_ = << >>
  /\ se_last = NoSe

InitGE ==
  /\ variant = "GeneralEvaporation"
  /\ bragg_edges_ = << >>
  /\ structure_factor_sum_ = << >>
  /\ calls = << >>
  /\ rec \in { r \in Records : WellFormed(r) }
  /\ ace = [j \in 1 .. rec.i |-> PadValue] \o Layout(rec)
  /\ pc = "raw"
  /\ NBT = << >>
  /\ INT = << >>
  /\ energy = << >>
  /\ temperature = << >>
  /\ region_kind = "none"
  /\ bin_bounds_ = << >>
  /\ se_last = NoSe

NextCE ==
  \/ Call_xs
  \/ Call_sample_angle_energy

NextGE ==
  \/ Construct
  \/ sample_energy

\* An STCoherentElastic and its callers.
SpecCE == InitCE /\ [][NextCE]_vars

\* A GeneralEvaporation: construction, then sampling.
SpecGE == InitGE /\ [][NextGE]_vars

(* ------------------------------ claims -------------------------------- *)
\* Index of the greatest edge <= E (E at or above the first edge).
GreatestEdgeLE(edges, E) ==
  CHOOSE j \in 0 .. Size(edges) - 1 :
    /\ At(edges, j) <= E
    /\ \A k \in j + 1 .. Size(edges) - 1 : At(edges, k) > E

\* E1 < E2 lie in one bracket [edges[i], edges[i+1]) or both at or above
\* the last edge.
SameBracket(edges, E1, E2) ==
  /\ Size(edges) > 0
  /\ E1 < E2
  /\ \/ \E j \in 0 .. Size(edges) - 2 :
          At(edges, j) <= E1 /\ E2 < At(edges, j + 1)
     \/ Back(edges) <= E1

XsCalls == { calls[n] : n \in { m \in 1 .. Len(calls) : calls[m].op = "xs" } }

SaeCalls ==
  { calls[n] : n \in { m \in 1 .. Len(calls) : calls[m].op = "sample_angle_energy" } }

\* C1: with at least two edges and E strictly between the first and the
\* last edge, xs(E) = structure_factor_sum[l] / E for l the index of the
\* greatest edge <= E (so sum[k] when E is the interior edge k).
C1_Claim ==
  \A c \in XsCalls :
    ( /\ Size(bragg_edges_) >= 2
      /\ c.E > Front(bragg_edges_)
      /\ c.E < Back(bragg_edges_) )
    => RatEq(c.ret,
             Rat(At(structure_factor_sum_, GreatestEdgeLE(bragg_edges_, c.E)), c.E))

\* C2: with a non-empty table, xs(E) = 0 for every E <= the first edge,
\* E equal to the first edge included.
C2_Claim ==
  \A c \in XsCalls :
    ( Size(bragg_edges_) > 0 /\ c.E <= Front(bragg_edges_) ) => c.ret.num = 0

\* C3: for E_in > 0 sample_angle_energy returns -1 <= mu <= 1 and
\* E_out >= 0, whatever the table.
C3_Claim ==
  \A c \in SaeCalls :
    c.E > 0 =>
      /\ RatLess(c.mu, Rat(1, 1)) \/ RatEq(c.mu, Rat(1, 1))
      /\ RatLess(Rat(-1, 1), c.mu) \/ RatEq(c.mu, Rat(-1, 1))
      /\ c.E_out >= 0

\* The edges the bracketing rule of C4 allows for E_in (both the low and
\* the high value where one edge is first and last).
C4_AllowedEi(edges, E_in) ==
  { 0 : x \in { y \in {1} : E_in <= Front(edges) } }
    \cup { Back(edges) : x \in { y \in {1} : E_in >= Back(edges) } }
    \cup { At(edges, GreatestEdgeLE(edges, E_in)) :
             x \in { y \in {1} : E_in > Front(edges) /\ E_in < Back(edges) } }

\* C4: with a non-empty table, mu = 1 - 2 Ei / E_in where Ei = 0 for
\* E_in <= first edge, Ei = last edge for E_in >= last edge, and the
\* greatest edge <= E_in otherwise.
C4_Claim ==
  \A c \in SaeCalls :
    Size(bragg_edges_) > 0 =>
      \E Ei \in C4_AllowedEi(bragg_edges_, c.E) :
        RatEq(c.mu, Rat(c.E - 2 * Ei, c.E))

\* C5: with at least two bin bounds and variates in [0,1), the selected
\* bin has bin + 1 <= size - 1: both reads are inside the table.
C5_Claim ==
  ( Len(se_last.draws) = 2 /\ Size(bin_bounds_) >= 2 )
  => se_last.bin + 1 <= Size(bin_bounds_) - 1

\* C6: the constructor sets bin_bounds to exactly the NX values after the
\* NX count, energy to the NE values after the NE count and temperature
\* to the NE values after those.
C6_Claim ==
  ( variant = "GeneralEvaporation" /\ pc # "raw" )
  => /\ bin_bounds_ = rec.bins
     /\ energy = rec.energy
     /\ temperature = rec.temperature

\* C7 as stated: sample_angle_energy returns E_out = E_in for every
\* instance and every E_in.
C7_Original == \A c \in SaeCalls : c.E_out = c.E

\* C7 amended: sample_angle_energy returns E_out = E_in for every instance
\* with at least one Bragg edge; with no edge it returns E_out = 0.
C7_Amended ==
  \A c \in SaeCalls :
    IF Size(bragg_edges_) > 0 THEN c.E_out = c.E ELSE c.E_out = 0

\* A call on a table of two or more edges that selected an edge below E_in.
C7_Witness ==
  \E c \in SaeCalls :
    /\ Size(bragg_edges_) >= 2
    /\ c.Ei > 0
    /\ c.Ei < c.E
    /\ c.E_out = c.E

\* C8: a sample_energy call draws exactly two variates, the first selects
\* the bin, the second the position in it, and the result is
\* (bin_bounds[bin] + xi2 (bin_bounds[bin+1] - bin_bounds[bin])) T(E_in).
C8_Claim ==
  ( variant = "GeneralEvaporation" /\ se_last.draws # << >> )
  => /\ Len(se_last.draws) = 2
     /\ se_last.bin = (Size(bin_bounds_) * se_last.draws[1]) \div XiDen
     /\ se_last.called
     /\ se_last.bin + 1 < Size(bin_bounds_)
     /\ LET lo == At(bin_bounds_, se_last.bin)
            hi == At(bin_bounds_, se_last.bin + 1)
        IN  RatEq(se_last.ret,
                  Rat((lo * XiDen + se_last.draws[2] * (hi - lo))
                        * temperature_eval(energy, temperature, se_last.E_in),
                      XiDen))

\* C9: for positive structure factor sums and E1 < E2 in one bracket
\* [edges[i], edges[i+1]) or both at or above the last edge,
\* xs(E1) > xs(E2).
C9_Claim ==
  \A c1 \in XsCalls, c2 \in XsCalls :
    SameBracket(bragg_edges_, c1.E, c2.E) => RatLess(c2.ret, c1.ret)

\* C10: for a non-empty table xs(E) and sample_angle_energy(E) pick the
\* same edge: where xs(E) is non-zero its numerator is
\* structure_factor_sum[l] and Ei = bragg_edges[l] for the same l, and
\* Ei = 0 exactly when xs(E) is the below-threshold 0.
C10_SameEdge ==
  \A c \in XsCalls, d \in SaeCalls :
    ( c.E = d.E /\ Size(bragg_edges_) > 0 )
    => /\ c.ret.num # 0 =>
            /\ c.l \in 0 .. Size(bragg_edges_) - 1
            /\ c.ret = Rat(At(structure_factor_sum_, c.l), c.E)
            /\ d.Ei = At(bragg_edges_, c.l)
       /\ d.Ei = 0 <=> c.ret.num = 0

\* Both calls made at an energy that is exactly an interior edge.
C10_Witness ==
  \E c \in XsCalls, d \in SaeCalls :
    /\ c.E = d.E
    /\ Size(bragg_edges_) >= 3
    /\ c.E = At(bragg_edges_, 1)
    /\ c.ret.num # 0
    /\ d.Ei = At(bragg_edges_, c.l)

====
